---- MODULE Spec2Model ----
(***************************************************************************)
(* The request handlers of enhanced_gradio_app.py as a state machine.      *)
(*                                                                         *)
(* The process state is the two module globals tts_model and vc_model, the *)
(* import-time flag CHATTERBOX_AVAILABLE, the four random generators that  *)
(* set_seed seeds, the audio_history directory and the wall clock.  The    *)
(* UI framework runs the handlers on a pool of workers: each worker has a  *)
(* program counter and the locals of the handler it is running.            *)
(*                                                                         *)
(* Floating point parameters are written in hundredths (0.5 is 50).        *)
(* A text is the sequence of its characters.                               *)
(***************************************************************************)
EXTENDS Integers, Sequences, FiniteSets, TLC

VARIABLES
    CHATTERBOX_AVAILABLE,  \* the import of chatterbox.tts / chatterbox.vc succeeded
    tts_model,             \* global TTS session, None until loaded
    vc_model,              \* global VC session, None until loaded
    rng,                   \* the state of the torch, cuda, random and numpy generators
    dir_exists,            \* the directory audio_history exists
    launcher,              \* the run of run_gradio_app.py: position, arguments,
                           \* os.environ, steps taken, exit status, launch call
    files,                 \* audio_history/*.wav : file name -> content
    now,                   \* wall clock, in seconds
    pc,                    \* worker -> position in its handler
    op,                    \* worker -> handler it is running
    args,                  \* worker -> arguments of the call
    model,                 \* worker -> the handler's local `model`
    eff,                   \* worker -> locals of generate_tts after set_seed
    sent,                  \* worker -> arguments handed to the external model.generate
    ret,                   \* worker -> value returned to the UI framework
    raced                  \* worker -> its constructor call overlapped another one
                           \* for the same kind (history, not read by the program)

vars == <<CHATTERBOX_AVAILABLE, tts_model, vc_model, rng, files, now,
          pc, op, args, model, eff, sent, ret, raced, dir_exists, launcher>>

globals == <<CHATTERBOX_AVAILABLE, tts_model, vc_model, rng, files, now>>

(***************************************************************************)
(* Program constants                                                       *)
(***************************************************************************)
MAX_TEXT_LENGTH == 500
SAMPLE_RATE == 24000
RANDINT_HIGH == 1000000
default_concurrency_limit == 2

(***************************************************************************)
(* Bounds of the model                                                     *)
(***************************************************************************)
MaxTime == 1        \* last second of the wall clock
ShortLen == 2       \* length of the short texts

None == [none |-> TRUE]

Workers == 1..default_concurrency_limit

Kinds == {"tts", "vc"}

(***************************************************************************)
(* Texts                                                                   *)
(***************************************************************************)
Whitespace == {" ", "\t", "\n"}

\* pad whitespace characters followed by n - pad characters c
MkText(pad, n, c) == [i \in 1..n |-> IF i <= pad THEN " " ELSE c]

\* text.strip(): the text without its leading and trailing whitespace
strip(text) ==
    LET kept == {i \in 1..Len(text) : text[i] \notin Whitespace}
    IN  IF kept = {} THEN <<>>
        ELSE SubSeq(text, CHOOSE i \in kept : \A j \in kept : i <= j,
                          CHOOSE i \in kept : \A j \in kept : j <= i)

\* the check without its second half
IsBlank_NoStrip(text) == text = <<>>

\* line 173: `not text or not text.strip()`
IsBlank(text) == text = <<>> \/ strip(text) = <<>>

\* the length check on the stripped text
TooLong_Stripped(text) == Len(strip(text)) > MAX_TEXT_LENGTH

\* line 176: `len(text) > MAX_TEXT_LENGTH`
TooLong(text) == Len(text) > MAX_TEXT_LENGTH

(***************************************************************************)
(* Preset table                                                            *)
(***************************************************************************)
PresetNames ==
    {"Neutral", "Calm & Controlled", "Expressive & Dynamic",
     "Dramatic & Intense", "Robotic & Stable", "Creative & Varied"}

Config(e, c, t) == [exaggeration |-> e, cfg_weight |-> c, temperature |-> t]

get_preset_configs ==
    [name \in PresetNames |->
        CASE name = "Neutral"              -> Config(50, 50, 80)
          [] name = "Calm & Controlled"    -> Config(20, 70, 60)
          [] name = "Expressive & Dynamic" -> Config(80, 30, 90)
          [] name = "Dramatic & Intense"   -> Config(120, 20, 100)
          [] name = "Robotic & Stable"     -> Config(10, 80, 50)
          [] name = "Creative & Varied"    -> Config(70, 40, 120)]

\* the table read with two of the values exchanged
apply_preset_Swapped(preset) ==
    IF preset = "Custom" THEN <<50, 50, 80>>
    ELSE IF preset \in DOMAIN get_preset_configs
         THEN LET config == get_preset_configs[preset]
              IN  <<config.cfg_weight, config.exaggeration, config.temperature>>
         ELSE <<50, 50, 80>>

apply_preset(preset) ==
    IF preset = "Custom" THEN <<50, 50, 80>>
    ELSE IF preset \in DOMAIN get_preset_configs
         THEN LET config == get_preset_configs[preset]
              IN  <<config.exaggeration, config.cfg_weight, config.temperature>>
         ELSE <<50, 50, 80>>

\* generate_tts taking the three parameters from apply_preset for every preset
ResolveParams_ViaApplyPreset(preset, exaggeration, cfg_weight, temperature) ==
    LET v == apply_preset(preset) IN Config(v[1], v[2], v[3])

\* generate_tts lines 186-192: the three parameters after the preset is applied
ResolveParams(preset, exaggeration, cfg_weight, temperature) ==
    IF preset # "Custom" /\ preset \in DOMAIN get_preset_configs
    THEN LET config == get_preset_configs[preset]
         IN  Config(config.exaggeration, config.cfg_weight, config.temperature)
    ELSE Config(exaggeration, cfg_weight, temperature)

(***************************************************************************)
(* Random generators                                                       *)
(***************************************************************************)
\* The state of a generator is named by the value it was last seeded with.
\* random.randint(1, 1000000) is a deterministic function of the state of the
\* `random` generator with values in 1..1000000.
RandInt(g) == RANDINT_HIGH - (g % RANDINT_HIGH)

SeededAll(seed) == [torch |-> seed, cuda |-> seed, py |-> seed, np |-> seed]

\* set_seed with the four seeding calls inside the `if seed == 0`
set_seed_OnlyWhenZero(seed, g) ==
    IF seed = 0
    THEN [seed |-> RandInt(g.py), rng |-> SeededAll(RandInt(g.py))]
    ELSE [seed |-> seed, rng |-> g]

\* set_seed without the replacement of a zero seed
set_seed_KeepZero(seed, g) == [seed |-> seed, rng |-> SeededAll(seed)]

set_seed(seed, g) ==
    LET actual == IF seed = 0 THEN RandInt(g.py) ELSE seed
    IN  [seed |-> actual, rng |-> SeededAll(actual)]

(***************************************************************************)
(* The external model library (a stub)                                     *)
(***************************************************************************)
Letters == {"a"}

\* ChatterboxTTS.from_pretrained / ChatterboxVC.from_pretrained, when it returns:
\* a new session object; id tells the objects of one kind apart (the worker
\* whose call created it)
Session(kind, id) == [kind |-> kind, id |-> id, sr |-> SAMPLE_RATE]

\* number of samples the TTS stub produces: one second of audio for a text that
\* has something to speak, nothing for a text without letters
TtsSamples(text) ==
    IF \E i \in 1..Len(text) : text[i] \in Letters THEN SAMPLE_RATE ELSE 0

\* model.generate(text, **generation_params) of a TTS session, when it returns:
\* the waveform depends on the session, the arguments and the generators only
TtsModelGenerate(session, text, generation_params, g) ==
    [n |-> TtsSamples(text),
     data |-> [session |-> session.id, text |-> text,
               kw |-> generation_params, rng |-> g]]

\* an audio file the UI hands over as a path
AudioFile(path) == [path |-> path]

\* a recording without any speech in it
SilentAudio == AudioFile("silence.wav")

\* model.generate(input_audio, target_voice_path=...) of a VC session, when it
\* returns: nothing to convert gives an empty waveform
VcModelGenerate(session, input_audio, target_voice_path, g) ==
    [n |-> IF input_audio = SilentAudio THEN 0 ELSE SAMPLE_RATE,
     data |-> [session |-> session.id, input |-> input_audio,
               target_voice_path |-> target_voice_path, rng |-> g]]

(***************************************************************************)
(* Audio history                                                           *)
(***************************************************************************)
\* f"{prefix}_{timestamp}.wav" with timestamp = strftime("%Y%m%d_%H%M%S"):
\* the timestamp has a fixed width, so it is named by the second it renders
FileName(prefix, timestamp) == [prefix |-> prefix, timestamp |-> timestamp]

\* a save that empties the directory before it writes
WriteFile_OnlyNew(dir, name, content) == [f \in {name} |-> content]

\* a save that leaves a file that is already there as it is
WriteFile_KeepFirst(dir, name, content) ==
    [f \in (DOMAIN dir) \cup {name} |-> IF f \in DOMAIN dir THEN dir[f] ELSE content]

\* the directory after torchaudio.save(filepath, audio_tensor, sample_rate)
WriteFile(dir, name, content) ==
    [f \in (DOMAIN dir) \cup {name} |-> IF f = name THEN content ELSE dir[f]]

\* save_audio_to_history that does not use its prefix argument
save_audio_to_history_DefaultPrefix(dir, clock, audio_data, sample_rate, prefix) ==
    LET filepath == FileName("generated", clock)
    IN  [path |-> filepath,
         files |-> WriteFile(dir, filepath, [sr |-> sample_rate, n |-> audio_data.n])]

\* save_audio_to_history: the file written and the directory afterwards
save_audio_to_history(dir, clock, audio_data, sample_rate, prefix) ==
    LET filepath == FileName(prefix, clock)
    IN  [path |-> filepath,
         files |-> WriteFile(dir, filepath, [sr |-> sample_rate, n |-> audio_data.n])]

NoFiles == [f \in {} |-> None]

(***************************************************************************)
(* Status texts                                                            *)
(***************************************************************************)
NotInstalled ==
    [ok |-> FALSE, msg |-> "ChatterBox not installed",
     hint |-> "pip install chatterbox-tts"]

LoadFailed(kind) ==
    [ok |-> FALSE, msg |-> "Failed to load model", kind |-> kind,
     troubleshooting |-> <<"internet connection", "disk space", "restart">>]

LoadedOk(kind, session) ==
    [ok |-> TRUE, msg |-> "Model loaded successfully", kind |-> kind,
     sr |-> session.sr]

AlreadyLoaded(kind) == [ok |-> TRUE, msg |-> "Model already loaded", kind |-> kind]

EmptyText == [ok |-> FALSE, msg |-> "Please enter some text to synthesize"]

TextTooLong == [ok |-> FALSE, msg |-> "Text too long", maximum |-> MAX_TEXT_LENGTH]

NoInputAudio == [ok |-> FALSE, msg |-> "Please provide input audio for voice conversion"]

GenerationFailed(e) == [ok |-> FALSE, msg |-> "Generation failed", error |-> e]

ConversionFailed(e) == [ok |-> FALSE, msg |-> "Voice conversion failed", error |-> e]

\* f"{duration:.1f}" of duration = n / sr, in tenths of a second
DurationTenths(n, sr) == (n * 10 + sr \div 2) \div sr

Generated(n, sr, actual_seed, history_path, p) ==
    [ok |-> TRUE, msg |-> "Generated", duration |-> DurationTenths(n, sr),
     seed |-> actual_seed, path |-> history_path,
     exag |-> p.exaggeration, cfg |-> p.cfg_weight, temp |-> p.temperature]

Converted(n, sr, history_path) ==
    [ok |-> TRUE, msg |-> "Converted", duration |-> DurationTenths(n, sr),
     path |-> history_path]

HistoryCleared == [ok |-> TRUE, msg |-> "Audio history cleared successfully"]

(***************************************************************************)
(* Requests the UI can send                                                *)
(***************************************************************************)
TtsRequest(text, reference_audio, exaggeration, cfg_weight, temperature, seed, preset) ==
    [text |-> text, reference_audio |-> reference_audio,
     exaggeration |-> exaggeration, cfg_weight |-> cfg_weight,
     temperature |-> temperature, seed |-> seed, preset |-> preset]

VcRequest(input_audio, target_voice_audio) ==
    [input_audio |-> input_audio, target_voice_audio |-> target_voice_audio]

Hello == MkText(0, ShortLen, "a")

Texts ==
    {<<>>,                                    \* ""
     MkText(ShortLen, ShortLen, " "),         \* only spaces
     <<"\t", "\n">>,                          \* only other whitespace
     MkText(MAX_TEXT_LENGTH + 1, MAX_TEXT_LENGTH + 1, " "),
     Hello,
     MkText(1, MAX_TEXT_LENGTH, "a"),         \* at the limit, shorter when stripped
     MkText(0, MAX_TEXT_LENGTH, "a"),
     MkText(1, MAX_TEXT_LENGTH + 1, "a"),     \* over the limit, at it when stripped
     MkText(0, MAX_TEXT_LENGTH + 1, "a")}

PresetInputs == PresetNames \cup {"Custom", "Whisper"}

Seeds == {0, 7, RANDINT_HIGH + 1}

ReferenceAudios == {None, AudioFile("voice.wav")}

\* the sliders are at a position no preset has (1.3, 0.25, 1.7), or at their
\* defaults
TtsRequests ==
    {TtsRequest(t, None, 130, 25, 170, 7, "Neutral") : t \in Texts}
    \cup {TtsRequest(Hello, None, 130, 25, 170, 7, p) : p \in PresetInputs}
    \cup {TtsRequest(Hello, r, 130, 25, 170, s, "Custom") :
              r \in ReferenceAudios, s \in Seeds}
    \cup {TtsRequest(Hello, None, 50, 50, 80, 0, "Neutral")}

VcRequests ==
    {VcRequest(i, t) :
        i \in {None, AudioFile("in.wav")}, t \in {None, AudioFile("target.wav")}}

\* the requests of the runs in which handlers overlap
OverlapTtsRequests == {TtsRequest(Hello, None, 130, 25, 170, 7, "Custom")}

\* the requests of the runs that compare two calls
PairTtsRequests ==
    {TtsRequest(Hello, None, 130, 25, 170, s, "Custom") : s \in Seeds}
    \cup {TtsRequest(Hello, AudioFile("voice.wav"), 130, 25, 170, 7, "Neutral")}

PairVcRequests == {VcRequest(AudioFile("in.wav"), None)}

\* a text with nothing to speak in it
Dots == MkText(0, ShortLen, ".")

\* the requests of the runs with an empty waveform or without the directory
EdgeTtsRequests ==
    {TtsRequest(t, None, 50, 50, 80, 7, "Neutral") : t \in {Hello, Dots}}

\* the requests of the runs that look at the history directory
HistoryTtsRequests == {TtsRequest(Hello, None, 50, 50, 80, 7, "Neutral")}

HistoryVcRequests ==
    {VcRequest(AudioFile("in.wav"), None), VcRequest(SilentAudio, None)}

\* states the generators can be in when the process starts
OsEntropy == {123456}

(***************************************************************************)
(* Initial state: the module has been imported                             *)
(***************************************************************************)
AppInit ==
    /\ CHATTERBOX_AVAILABLE \in BOOLEAN
    /\ tts_model = None
    /\ vc_model = None
    /\ \E e \in OsEntropy : rng = SeededAll(e)
    /\ dir_exists = TRUE
    /\ files = NoFiles
    /\ now = 0
    /\ pc = [w \in Workers |-> "idle"]
    /\ op = [w \in Workers |-> "none"]
    /\ args = [w \in Workers |-> None]
    /\ model = [w \in Workers |-> None]
    /\ eff = [w \in Workers |-> None]
    /\ sent = [w \in Workers |-> None]
    /\ ret = [w \in Workers |-> None]
    /\ raced = [w \in Workers |-> FALSE]

\* the app was started directly (python enhanced_gradio_app.py)
NoLauncher == [pc |-> "none"]

Init == AppInit /\ launcher = NoLauncher

(***************************************************************************)
(* Calls and returns                                                       *)
(***************************************************************************)
\* worker w starts handler o with arguments a
Call(w, o, a) ==
    /\ pc[w] = "idle"
    /\ op' = [op EXCEPT ![w] = o]
    /\ args' = [args EXCEPT ![w] = a]

\* handler of worker w returns r
Done(w, r) ==
    /\ pc' = [pc EXCEPT ![w] = "done"]
    /\ ret' = [ret EXCEPT ![w] = r]

Goto(w, label) ==
    /\ pc' = [pc EXCEPT ![w] = label]
    /\ UNCHANGED ret

KindOf(o) == IF o \in {"load_tts_model", "generate_tts"} THEN "tts" ELSE "vc"

Global(kind) == IF kind = "tts" THEN tts_model ELSE vc_model

\* the generation handlers replacing the status of a failed load by their own
LoadReturns_OwnStatus(w, session, status) ==
    IF op[w] \in {"load_tts_model", "load_vc_model"}
    THEN /\ Done(w, [model |-> session, status |-> status])
         /\ UNCHANGED model
    ELSE IF session = None
    THEN /\ Done(w, [audio |-> None, status |-> GenerationFailed("no model")])
         /\ UNCHANGED model
    ELSE /\ Goto(w, IF op[w] = "generate_tts" THEN "set_seed" ELSE "convert")
         /\ model' = [model EXCEPT ![w] = session]

\* load_tts_model / load_vc_model returns (session, status) to its caller: the
\* UI framework, or generate_tts (lines 180-182) / generate_vc (lines 268-270)
LoadReturns(w, session, status) ==
    IF op[w] \in {"load_tts_model", "load_vc_model"}
    THEN /\ Done(w, [model |-> session, status |-> status])
         /\ UNCHANGED model
    ELSE IF session = None
    THEN /\ Done(w, [audio |-> None, status |-> status])
         /\ UNCHANGED model
    ELSE /\ Goto(w, IF op[w] = "generate_tts" THEN "set_seed" ELSE "convert")
         /\ model' = [model EXCEPT ![w] = session]

(***************************************************************************)
(* load_tts_model / load_vc_model                                          *)
(***************************************************************************)
\* the "Load TTS Model" / "Load VC Model" button
LoadModel(w, kind) ==
    /\ Call(w, IF kind = "tts" THEN "load_tts_model" ELSE "load_vc_model", None)
    /\ Goto(w, "load")
    /\ UNCHANGED <<globals, model, eff, sent>>
    /\ UNCHANGED <<raced, dir_exists, launcher>>

\* the constructor calls for `kind` that are running
Constructing(kind) ==
    {v \in Workers : pc[v] = "from_pretrained" /\ KindOf(op[v]) = kind}

\* worker w calls the constructor for `kind`
StartConstruct(w, kind) ==
    /\ Goto(w, "from_pretrained")
    /\ UNCHANGED model
    /\ raced' = [v \in Workers |->
                    IF v = w THEN Constructing(kind) # {}
                    ELSE IF v \in Constructing(kind) THEN TRUE
                    ELSE raced[v]]

\* the load without the `is None` check: the constructor runs on every call
LoadCheck_NoLazy(w) ==
    /\ pc[w] = "load"
    /\ IF ~CHATTERBOX_AVAILABLE
       THEN LoadReturns(w, None, NotInstalled) /\ UNCHANGED raced
       ELSE StartConstruct(w, KindOf(op[w]))
    /\ UNCHANGED <<globals, op, args, eff, sent, dir_exists, launcher>>

\* the load without the availability check
LoadCheck_NoAvailability(w) ==
    /\ pc[w] = "load"
    /\ LET kind == KindOf(op[w])
       IN  IF Global(kind) = None
           THEN StartConstruct(w, kind)
           ELSE LoadReturns(w, Global(kind), AlreadyLoaded(kind)) /\ UNCHANGED raced
    /\ UNCHANGED <<globals, op, args, eff, sent, dir_exists, launcher>>

\* lines 89-93 and 103-104: the availability check and the lazy-init check
LoadCheck(w) ==
    /\ pc[w] = "load"
    /\ LET kind == KindOf(op[w])
       IN  IF ~CHATTERBOX_AVAILABLE
           THEN LoadReturns(w, None, NotInstalled) /\ UNCHANGED raced
           ELSE IF Global(kind) = None
           THEN StartConstruct(w, kind)
           ELSE LoadReturns(w, Global(kind), AlreadyLoaded(kind)) /\ UNCHANGED raced
    /\ UNCHANGED <<globals, op, args, eff, sent, dir_exists, launcher>>

\* the load without its try/except: an exception of the constructor reaches
\* the UI framework
Construct_Uncaught(w) ==
    /\ pc[w] = "from_pretrained"
    /\ LET kind == KindOf(op[w])
       IN  \/ /\ Done(w, [raised |-> "Exception"])
              /\ UNCHANGED <<tts_model, vc_model, model>>
           \/ /\ IF kind = "tts"
                 THEN tts_model' = Session(kind, w) /\ UNCHANGED vc_model
                 ELSE vc_model' = Session(kind, w) /\ UNCHANGED tts_model
              /\ Goto(w, "loaded")
              /\ UNCHANGED model
    /\ UNCHANGED <<CHATTERBOX_AVAILABLE, rng, files, now, op, args, eff, sent>>
    /\ UNCHANGED <<raced, dir_exists, launcher>>

\* the load answering a failed construction with the install hint
Construct_InstallHint(w) ==
    /\ pc[w] = "from_pretrained"
    /\ LET kind == KindOf(op[w])
       IN  \/ /\ LoadReturns(w, None, NotInstalled)
              /\ UNCHANGED <<tts_model, vc_model>>
           \/ /\ IF kind = "tts"
                 THEN tts_model' = Session(kind, w) /\ UNCHANGED vc_model
                 ELSE vc_model' = Session(kind, w) /\ UNCHANGED tts_model
              /\ Goto(w, "loaded")
              /\ UNCHANGED model
    /\ UNCHANGED <<CHATTERBOX_AVAILABLE, rng, files, now, op, args, eff, sent>>
    /\ UNCHANGED <<raced, dir_exists, launcher>>

\* the load whose except branch resets the global
Construct_ResetOnFailure(w) ==
    /\ pc[w] = "from_pretrained"
    /\ LET kind == KindOf(op[w])
       IN  \/ /\ LoadReturns(w, None, LoadFailed(kind))
              /\ IF kind = "tts"
                 THEN tts_model' = None /\ UNCHANGED vc_model
                 ELSE vc_model' = None /\ UNCHANGED tts_model
           \/ /\ IF kind = "tts"
                 THEN tts_model' = Session(kind, w) /\ UNCHANGED vc_model
                 ELSE vc_model' = Session(kind, w) /\ UNCHANGED tts_model
              /\ Goto(w, "loaded")
              /\ UNCHANGED model
    /\ UNCHANGED <<CHATTERBOX_AVAILABLE, rng, files, now, op, args, eff, sent>>
    /\ UNCHANGED <<raced, dir_exists, launcher>>

\* lines 96 and 106-112: the external constructor runs; it raises, or it returns
\* a session that is stored in the global
Construct(w) ==
    /\ pc[w] = "from_pretrained"
    /\ LET kind == KindOf(op[w])
       IN  \/ /\ LoadReturns(w, None, LoadFailed(kind))
              /\ UNCHANGED <<tts_model, vc_model>>
           \/ /\ IF kind = "tts"
                 THEN tts_model' = Session(kind, w) /\ UNCHANGED vc_model
                 ELSE vc_model' = Session(kind, w) /\ UNCHANGED tts_model
              /\ Goto(w, "loaded")
              /\ UNCHANGED model
    /\ UNCHANGED <<CHATTERBOX_AVAILABLE, rng, files, now, op, args, eff, sent>>
    /\ UNCHANGED <<raced, dir_exists, launcher>>

\* lines 97-102: the status is built from the global, and the global is returned
Loaded(w) ==
    /\ pc[w] = "loaded"
    /\ LET kind == KindOf(op[w])
       IN  LoadReturns(w, Global(kind), LoadedOk(kind, Global(kind)))
    /\ UNCHANGED <<globals, op, args, eff, sent>>
    /\ UNCHANGED <<raced, dir_exists, launcher>>

(***************************************************************************)
(* generate_tts                                                            *)
(***************************************************************************)
\* lines 173-180: input validation, then the call of load_tts_model
GenerateTts(w, req) ==
    /\ Call(w, "generate_tts", req)
    /\ IF IsBlank(req.text)
       THEN Done(w, [audio |-> None, status |-> EmptyText])
       ELSE IF TooLong(req.text)
       THEN Done(w, [audio |-> None, status |-> TextTooLong])
       ELSE Goto(w, "load")
    /\ UNCHANGED <<globals, model, eff, sent>>
    /\ UNCHANGED <<raced, dir_exists, launcher>>

\* lines 186-195: the preset is applied and the generators are seeded
TtsSeed(w) ==
    /\ pc[w] = "set_seed"
    /\ LET a == args[w]
           p == ResolveParams(a.preset, a.exaggeration, a.cfg_weight, a.temperature)
           s == set_seed(a.seed, rng)
       IN  /\ rng' = s.rng
           /\ eff' = [eff EXCEPT ![w] = [params |-> p, actual_seed |-> s.seed]]
    /\ Goto(w, "generate")
    /\ UNCHANGED <<CHATTERBOX_AVAILABLE, tts_model, vc_model, files, now,
                   op, args, model, sent>>
    /\ UNCHANGED <<raced, dir_exists, launcher>>

\* lines 200-207: the keyword arguments of model.generate
GenerationParams(p, reference_audio) ==
    IF reference_audio # None
    THEN [exaggeration |-> p.exaggeration, cfg_weight |-> p.cfg_weight,
          temperature |-> p.temperature, audio_prompt_path |-> reference_audio]
    ELSE [exaggeration |-> p.exaggeration, cfg_weight |-> p.cfg_weight,
          temperature |-> p.temperature]

\* lines 213-228: what generate_tts does with the waveform the model returned
TtsFinish(w, wav) ==
    LET session == model[w]
        saved == save_audio_to_history(files, now, wav, session.sr, "tts")
    IN  IF ~dir_exists
        THEN \* no directory to write into: torchaudio.save raises
             /\ UNCHANGED files
             /\ Done(w, [audio |-> None,
                         status |-> GenerationFailed("torchaudio.save raised")])
        ELSE /\ files' = saved.files
             /\ IF wav.n = 0
                THEN \* duration is 0.0: generation_time / duration raises
                     Done(w, [audio |-> None,
                              status |-> GenerationFailed("ZeroDivisionError")])
                ELSE Done(w, [audio |-> [sr |-> session.sr, wav |-> wav],
                              status |-> Generated(wav.n, session.sr,
                                                   eff[w].actual_seed,
                                                   saved.path, eff[w].params)])

\* generate_tts without its try/except: an exception of the model reaches the
\* UI framework
TtsGenerate_Uncaught(w) ==
    /\ pc[w] = "generate"
    /\ LET a == args[w]
           kw == GenerationParams(eff[w].params, a.reference_audio)
       IN  /\ sent' = [sent EXCEPT ![w] = [text |-> a.text, kw |-> kw]]
           /\ \/ /\ Done(w, [raised |-> "model.generate raised"])
                 /\ UNCHANGED files
              \/ TtsFinish(w, TtsModelGenerate(model[w], a.text, kw, rng))
    /\ UNCHANGED <<CHATTERBOX_AVAILABLE, tts_model, vc_model, rng, now,
                   op, args, model, eff>>
    /\ UNCHANGED <<raced, dir_exists, launcher>>

\* lines 197-233: the external model is called; it raises, or it returns a
\* waveform that is saved and returned
TtsGenerate(w) ==
    /\ pc[w] = "generate"
    /\ LET a == args[w]
           kw == GenerationParams(eff[w].params, a.reference_audio)
       IN  /\ sent' = [sent EXCEPT ![w] = [text |-> a.text, kw |-> kw]]
           /\ \/ /\ Done(w, [audio |-> None,
                             status |-> GenerationFailed("model.generate raised")])
                 /\ UNCHANGED files
              \/ TtsFinish(w, TtsModelGenerate(model[w], a.text, kw, rng))
    /\ UNCHANGED <<CHATTERBOX_AVAILABLE, tts_model, vc_model, rng, now,
                   op, args, model, eff>>
    /\ UNCHANGED <<raced, dir_exists, launcher>>

(***************************************************************************)
(* generate_vc                                                             *)
(***************************************************************************)
\* generate_vc without the check of its input
GenerateVc_NoCheck(w, req) ==
    /\ Call(w, "generate_vc", req)
    /\ Goto(w, "load")
    /\ UNCHANGED <<globals, model, eff, sent>>
    /\ UNCHANGED <<raced, dir_exists, launcher>>

\* lines 264-268: input validation, then the call of load_vc_model
GenerateVc(w, req) ==
    /\ Call(w, "generate_vc", req)
    /\ IF req.input_audio = None
       THEN Done(w, [audio |-> None, status |-> NoInputAudio])
       ELSE Goto(w, "load")
    /\ UNCHANGED <<globals, model, eff, sent>>
    /\ UNCHANGED <<raced, dir_exists, launcher>>

\* lines 283-294: what generate_vc does with the waveform the model returned
VcFinish(w, wav) ==
    LET session == model[w]
        saved == save_audio_to_history(files, now, wav, session.sr, "vc")
    IN  IF ~dir_exists
        THEN \* no directory to write into: torchaudio.save raises
             /\ UNCHANGED files
             /\ Done(w, [audio |-> None,
                         status |-> ConversionFailed("torchaudio.save raised")])
        ELSE /\ files' = saved.files
             /\ Done(w, [audio |-> [sr |-> session.sr, wav |-> wav],
                         status |-> Converted(wav.n, session.sr, saved.path)])

\* generate_vc using the input as the target voice when none is given
VcConvert_InputAsTarget(w) ==
    /\ pc[w] = "convert"
    /\ LET a == args[w]
           target == IF a.target_voice_audio = None THEN a.input_audio
                     ELSE a.target_voice_audio
       IN  /\ sent' = [sent EXCEPT ![w] =
                          [input_audio |-> a.input_audio,
                           target_voice_path |-> target]]
           /\ \/ /\ Done(w, [audio |-> None,
                             status |-> ConversionFailed("model.generate raised")])
                 /\ UNCHANGED files
              \/ VcFinish(w, VcModelGenerate(model[w], a.input_audio, target, rng))
    /\ UNCHANGED <<CHATTERBOX_AVAILABLE, tts_model, vc_model, rng, now,
                   op, args, model, eff>>
    /\ UNCHANGED <<raced, dir_exists, launcher>>

\* lines 272-299
VcConvert(w) ==
    /\ pc[w] = "convert"
    /\ LET a == args[w]
       IN  /\ sent' = [sent EXCEPT ![w] =
                          [input_audio |-> a.input_audio,
                           target_voice_path |-> a.target_voice_audio]]
           /\ \/ /\ Done(w, [audio |-> None,
                             status |-> ConversionFailed("model.generate raised")])
                 /\ UNCHANGED files
              \/ VcFinish(w, VcModelGenerate(model[w], a.input_audio,
                                             a.target_voice_audio, rng))
    /\ UNCHANGED <<CHATTERBOX_AVAILABLE, tts_model, vc_model, rng, now,
                   op, args, model, eff>>
    /\ UNCHANGED <<raced, dir_exists, launcher>>

(***************************************************************************)
(* Audio history listing, clearing, and the status report                  *)
(***************************************************************************)
\* the order of the prefixes as strings: "generated" < "tts" < "vc"
PrefixRank(prefix) ==
    CASE prefix = "generated" -> 1
      [] prefix = "tts" -> 2
      [] prefix = "vc" -> 3

\* a < b for the two paths as strings
PathLess(a, b) ==
    \/ PrefixRank(a.prefix) < PrefixRank(b.prefix)
    \/ a.prefix = b.prefix /\ a.timestamp < b.timestamp

\* sorted(audio_files, reverse=True)
RECURSIVE SortedReverse(_)
SortedReverse(S) ==
    IF S = {} THEN <<>>
    ELSE LET m == CHOOSE x \in S : \A y \in S : y = x \/ PathLess(y, x)
         IN  <<m>> \o SortedReverse(S \ {m})

\* lines 303-310
get_audio_history(exists, dir) ==
    IF ~exists THEN <<>> ELSE SortedReverse(DOMAIN dir)

Range(seq) == {seq[i] : i \in 1..Len(seq)}

Remove(dir, gone) == [f \in (DOMAIN dir) \ gone |-> dir[f]]

\* the "Clear Audio History" button, line 315: the directory is listed
ClearHistory(w) ==
    /\ Call(w, "clear_audio_history", None)
    /\ eff' = [eff EXCEPT ![w] = [listing |-> DOMAIN files]]
    /\ Goto(w, "unlink")
    /\ UNCHANGED <<globals, model, sent>>
    /\ UNCHANGED <<raced, dir_exists, launcher>>

\* the clear that deletes the files of generate_tts only
ClearUnlink_TtsOnly(w) ==
    /\ pc[w] = "unlink"
    /\ LET listing == {f \in eff[w].listing : f.prefix = "tts"}
       IN  IF listing \subseteq DOMAIN files
           THEN /\ files' = Remove(files, listing)
                /\ Done(w, [status |-> HistoryCleared])
           ELSE \E gone \in SUBSET (listing \cap DOMAIN files) :
                /\ files' = Remove(files, gone)
                /\ Done(w, [status |-> [ok |-> FALSE, msg |-> "Failed to clear history",
                                        error |-> "FileNotFoundError"]])
    /\ UNCHANGED <<CHATTERBOX_AVAILABLE, tts_model, vc_model, rng, now,
                   op, args, model, eff, sent>>
    /\ UNCHANGED <<raced, dir_exists, launcher>>

\* lines 315-319: the listed files are deleted; a file that is already gone
\* raises inside the try and ends the loop with the failure status
ClearUnlink(w) ==
    /\ pc[w] = "unlink"
    /\ LET listing == eff[w].listing
       IN  IF listing \subseteq DOMAIN files
           THEN /\ files' = Remove(files, listing)
                /\ Done(w, [status |-> HistoryCleared])
           ELSE \E gone \in SUBSET (listing \cap DOMAIN files) :
                /\ files' = Remove(files, gone)
                /\ Done(w, [status |-> [ok |-> FALSE, msg |-> "Failed to clear history",
                                        error |-> "FileNotFoundError"]])
    /\ UNCHANGED <<CHATTERBOX_AVAILABLE, tts_model, vc_model, rng, now,
                   op, args, model, eff, sent>>
    /\ UNCHANGED <<raced, dir_exists, launcher>>

\* a status report that loads the TTS session to report its sample rate
SystemStatus_Loads(w) ==
    /\ Call(w, "get_system_status", None)
    /\ eff' = [eff EXCEPT ![w] =
                  [tts_loaded |-> TRUE, vc_loaded |-> vc_model # None,
                   history_files |-> get_audio_history(dir_exists, files)]]
    /\ Goto(w, "stat")
    /\ tts_model' = IF tts_model = None THEN Session("tts", w) ELSE tts_model
    /\ UNCHANGED <<CHATTERBOX_AVAILABLE, vc_model, rng, files, now, model, sent>>
    /\ UNCHANGED <<raced, dir_exists, launcher>>

\* the "Refresh Status" button, lines 323-357: the globals are read and the
\* directory is listed
SystemStatus(w) ==
    /\ Call(w, "get_system_status", None)
    /\ eff' = [eff EXCEPT ![w] =
                  [tts_loaded |-> tts_model # None, vc_loaded |-> vc_model # None,
                   history_files |-> get_audio_history(dir_exists, files)]]
    /\ Goto(w, "stat")
    /\ UNCHANGED <<globals, model, sent>>
    /\ UNCHANGED <<raced, dir_exists, launcher>>

\* history_files[:5]
Recent(history_files) ==
    SubSeq(history_files, 1, IF Len(history_files) < 5 THEN Len(history_files) ELSE 5)

\* lines 359-370: the sizes of the listed files are read; stat() of a file that
\* is gone raises, and nothing catches it
StatusStat(w) ==
    /\ pc[w] = "stat"
    /\ LET l == eff[w]
       IN  IF Range(l.history_files) \subseteq DOMAIN files
           THEN Done(w, [status |->
                    [tts_loaded |-> l.tts_loaded, vc_loaded |-> l.vc_loaded,
                     total_files |-> Len(l.history_files),
                     recent |-> [i \in DOMAIN Recent(l.history_files) |->
                                   [name |-> l.history_files[i],
                                    size |-> files[l.history_files[i]].n]]]])
           ELSE Done(w, [raised |-> "FileNotFoundError"])
    /\ UNCHANGED <<globals, op, args, model, eff, sent>>
    /\ UNCHANGED <<raced, dir_exists, launcher>>

\* the preset dropdown changed
ApplyPreset(w, preset) ==
    /\ Call(w, "apply_preset", [preset |-> preset])
    /\ Done(w, [values |-> apply_preset(preset)])
    /\ UNCHANGED <<globals, model, eff, sent>>
    /\ UNCHANGED <<raced, dir_exists, launcher>>

\* the UI framework takes the returned value; the worker is free again
Return(w) ==
    /\ pc[w] = "done"
    /\ pc' = [pc EXCEPT ![w] = "idle"]
    /\ op' = [op EXCEPT ![w] = "none"]
    /\ args' = [args EXCEPT ![w] = None]
    /\ model' = [model EXCEPT ![w] = None]
    /\ eff' = [eff EXCEPT ![w] = None]
    /\ sent' = [sent EXCEPT ![w] = None]
    /\ ret' = [ret EXCEPT ![w] = None]
    /\ raced' = [raced EXCEPT ![w] = FALSE]
    /\ UNCHANGED <<globals, dir_exists, launcher>>

\* somebody removes the directory audio_history with all that is in it
RemoveDir ==
    /\ dir_exists
    /\ dir_exists' = FALSE
    /\ files' = NoFiles
    /\ UNCHANGED <<CHATTERBOX_AVAILABLE, tts_model, vc_model, rng, now,
                   pc, op, args, model, eff, sent, ret, raced, launcher>>

\* a second passes
Tick ==
    /\ now < MaxTime
    /\ now' = now + 1
    /\ UNCHANGED <<CHATTERBOX_AVAILABLE, tts_model, vc_model, rng, files,
                   pc, op, args, model, eff, sent, ret>>
    /\ UNCHANGED <<raced, dir_exists, launcher>>

(***************************************************************************)
(* run_gradio_app.py, and main() of enhanced_gradio_app.py                 *)
(***************************************************************************)
Hosts == {"0.0.0.0", "127.0.0.1"}

Ports == {7860, 8080}

\* str(args.port)
PortStr(port) == CASE port = 7860 -> "7860" [] port = 8080 -> "8080"

\* what parser.parse_args() can return (lines 136-147), and --help
LauncherArgs ==
    [help : BOOLEAN, install_deps : BOOLEAN, cpu : BOOLEAN, no_share : BOOLEAN,
     host : Hosts, port : Ports]

\* the variables of os.environ the launcher writes; None is: not set
Environ0 ==
    [CUDA_VISIBLE_DEVICES |-> None, GRADIO_SERVER_NAME |-> None,
     GRADIO_SERVER_PORT |-> None, GRADIO_SHARE |-> None]

\* the description of the argument parser (line 124), word by word
Description == <<"Launch", "ChatterBox", "TTS", "&", "VC", "Gradio", "Interface">>

LauncherStart(a) ==
    [pc |-> "parse_args", args |-> a, environ |-> Environ0, log |-> <<>>,
     exit |-> None, launched |-> None]

\* a step of the launcher and how it ended
Entry(step, outcome) == [step |-> step, outcome |-> outcome]

appvars == <<CHATTERBOX_AVAILABLE, tts_model, vc_model, rng, files, now,
             pc, op, args, model, eff, sent, ret, raced, dir_exists>>

\* the launcher goes on to `next` after `entry`
LauncherGoes(entry, next) ==
    launcher' = [launcher EXCEPT !.pc = next, !.log = Append(@, entry)]

\* the launcher process ends with `status` after `entry`
LauncherExits(entry, status) ==
    launcher' = [launcher EXCEPT !.pc = "exited", !.log = Append(@, entry),
                                 !.exit = status]

\* a parser that does not know --help
LauncherParse_NoHelp ==
    /\ launcher.pc = "parse_args"
    /\ launcher' = [launcher EXCEPT !.pc = "install_dependencies"]
    /\ UNCHANGED appvars

\* line 147: parser.parse_args(); --help prints the usage and exits with 0
LauncherParse ==
    /\ launcher.pc = "parse_args"
    /\ IF launcher.args.help
       THEN LauncherExits([step |-> "print_help", outcome |-> "ok",
                           description |-> Description], 0)
       ELSE launcher' = [launcher EXCEPT !.pc = "install_dependencies"]
    /\ UNCHANGED appvars

\* lines 153-155 and install_dependencies (lines 51-84)
LauncherInstall ==
    /\ launcher.pc = "install_dependencies"
    /\ IF launcher.args.install_deps
       THEN \/ LauncherGoes(Entry("install_dependencies", "ok"), "check_dependencies")
            \/ LauncherExits(Entry("install_dependencies", "failed"), 1)
       ELSE launcher' = [launcher EXCEPT !.pc = "check_dependencies"]
    /\ UNCHANGED appvars

\* lines 159-165 and check_dependencies (lines 29-49)
LauncherCheckDependencies ==
    /\ launcher.pc = "check_dependencies"
    /\ \E missing \in {{}, {"librosa"}, {"gradio", "torch"}} :
           IF missing # {}
           THEN LauncherExits(Entry("check_dependencies", "failed"), 1)
           ELSE LauncherGoes(Entry("check_dependencies", "ok"), "check_chatterbox")
    /\ UNCHANGED appvars

\* a launcher that goes on without the model library
LauncherCheckChatterbox_GoesOn ==
    /\ launcher.pc = "check_chatterbox"
    /\ \E available \in BOOLEAN :
           LauncherGoes(Entry("check_chatterbox", IF available THEN "ok" ELSE "failed"),
                        "get_device_info")
    /\ UNCHANGED appvars

\* lines 169-171 and check_chatterbox (lines 86-96)
LauncherCheckChatterbox ==
    /\ launcher.pc = "check_chatterbox"
    /\ \E available \in BOOLEAN :
           IF available
           THEN LauncherGoes(Entry("check_chatterbox", "ok"), "get_device_info")
           ELSE LauncherExits(Entry("check_chatterbox", "failed"), 1)
    /\ UNCHANGED appvars

\* lines 175-179: the device is reported, --cpu hides the GPUs
LauncherDevice ==
    /\ launcher.pc = "get_device_info"
    /\ IF launcher.args.cpu
       THEN launcher' = [launcher EXCEPT
                !.pc = "set_environ",
                !.log = Append(@, Entry("force_cpu", "ok")),
                !.environ = [@ EXCEPT !.CUDA_VISIBLE_DEVICES = ""]]
       ELSE launcher' = [launcher EXCEPT !.pc = "set_environ"]
    /\ UNCHANGED appvars

\* lines 191-202: enhanced_gradio_app.py has to be there; host, port and the
\* share flag are put into os.environ
LauncherEnviron ==
    /\ launcher.pc = "set_environ"
    /\ \/ LauncherExits(Entry("find_app", "failed"), 1)
       \/ launcher' = [launcher EXCEPT
                !.pc = "import_app",
                !.log = Append(@, Entry("set_environ", "ok")),
                !.environ = [@ EXCEPT
                    !.GRADIO_SERVER_NAME = launcher.args.host,
                    !.GRADIO_SERVER_PORT = PortStr(launcher.args.port),
                    !.GRADIO_SHARE = IF launcher.args.no_share THEN "False"
                                     ELSE "True"]]
    /\ UNCHANGED appvars

\* lines 205 and 208-213: the import of enhanced_gradio_app
LauncherImport ==
    /\ launcher.pc = "import_app"
    /\ \/ LauncherGoes(Entry("import_app", "ok"), "run_app")
       \/ LauncherExits(Entry("import_app", "failed"), 1)
       \/ LauncherExits(Entry("import_app", "interrupted"), 0)
    /\ UNCHANGED appvars

\* launch_kwargs of enhanced_gradio_app.main (lines 716-725)
launch_kwargs == [server_name |-> "0.0.0.0", server_port |-> 7860, share |-> TRUE]

\* line 206, run_app(): main() of enhanced_gradio_app (lines 703-741) builds
\* the interface and launches it; what launch() raises is caught and printed
\* in there, and main() returns
AppMain ==
    /\ launcher.pc = "run_app"
    /\ \/ LauncherExits(Entry("create_gradio_interface", "failed"), 1)
       \/ \E outcome \in {"ok", "failed", "interrupted"} :
              launcher' = [launcher EXCEPT
                  !.pc = "exited",
                  !.log = Append(@, Entry("launch", outcome)),
                  !.launched = launch_kwargs,
                  !.exit = 0]
    /\ UNCHANGED appvars

(***************************************************************************)
(* Specifications                                                          *)
(***************************************************************************)
\* handlers run one after the other: one worker runs them all (which worker of
\* the pool runs a handler makes no difference to the handler)
SerialWorkers == {1}

Next ==
    \/ \E w \in SerialWorkers :
           \/ \E kind \in Kinds : LoadModel(w, kind)
           \/ LoadCheck(w)
           \/ Construct(w)
           \/ Loaded(w)
           \/ \E req \in TtsRequests : GenerateTts(w, req)
           \/ TtsSeed(w)
           \/ TtsGenerate(w)
           \/ \E req \in VcRequests : GenerateVc(w, req)
           \/ VcConvert(w)
           \/ ClearHistory(w)
           \/ ClearUnlink(w)
           \/ SystemStatus(w)
           \/ StatusStat(w)
           \/ \E preset \in PresetInputs : ApplyPreset(w, preset)
           \/ Return(w)
    \/ Tick

Spec == Init /\ [][Next]_vars

\* handlers overlap on the worker pool
OverlapNext ==
    \E w \in Workers :
        \/ \E kind \in Kinds : LoadModel(w, kind)
        \/ LoadCheck(w)
        \/ Construct(w)
        \/ Loaded(w)
        \/ \E req \in OverlapTtsRequests : GenerateTts(w, req)
        \/ TtsSeed(w)
        \/ TtsGenerate(w)
        \/ ClearHistory(w)
        \/ ClearUnlink(w)
        \/ SystemStatus(w)
        \/ StatusStat(w)
        \/ Return(w)

OverlapSpec == Init /\ [][OverlapNext]_vars

\* handlers run one after the other, on either worker; a returned value may
\* stay with its worker while the other worker runs later handlers
Quiet(w) == \A v \in Workers \ {w} : pc[v] \in {"idle", "done"}

PairNext ==
    \E w \in Workers :
        \/ Quiet(w) /\ \E kind \in Kinds : LoadModel(w, kind)
        \/ Quiet(w) /\ LoadCheck(w)
        \/ Quiet(w) /\ Construct(w)
        \/ Quiet(w) /\ Loaded(w)
        \/ Quiet(w) /\ \E req \in PairTtsRequests : GenerateTts(w, req)
        \/ Quiet(w) /\ TtsSeed(w)
        \/ Quiet(w) /\ TtsGenerate(w)
        \/ Quiet(w) /\ \E req \in PairVcRequests : GenerateVc(w, req)
        \/ Quiet(w) /\ VcConvert(w)
        \/ Quiet(w) /\ Return(w)

PairSpec == Init /\ [][PairNext]_vars

\* handlers that save overlap on the worker pool, the clock advances and the
\* directory can be removed under the running process
HistoryNext ==
    \/ \E w \in Workers :
           \/ LoadCheck(w)
           \/ Construct(w)
           \/ Loaded(w)
           \/ \E req \in HistoryTtsRequests : GenerateTts(w, req)
           \/ TtsSeed(w)
           \/ TtsGenerate(w)
           \/ \E req \in HistoryVcRequests : GenerateVc(w, req)
           \/ VcConvert(w)
           \/ Return(w)
    \/ Tick
    \/ RemoveDir

HistorySpec == Init /\ [][HistoryNext]_vars

\* the directory is removed while no handler is running
RemoveDirQuiet ==
    /\ \A w \in Workers : pc[w] \in {"idle", "done"}
    /\ RemoveDir

\* handlers run one after the other; the model can return an empty waveform
\* and the directory can be removed between two handlers
EdgeNext ==
    \/ \E w \in SerialWorkers :
           \/ \E kind \in Kinds : LoadModel(w, kind)
           \/ LoadCheck(w)
           \/ Construct(w)
           \/ Loaded(w)
           \/ \E req \in EdgeTtsRequests : GenerateTts(w, req)
           \/ TtsSeed(w)
           \/ TtsGenerate(w)
           \/ \E req \in PairVcRequests : GenerateVc(w, req)
           \/ VcConvert(w)
           \/ ClearHistory(w)
           \/ ClearUnlink(w)
           \/ SystemStatus(w)
           \/ StatusStat(w)
           \/ Return(w)
    \/ Tick
    \/ RemoveDirQuiet

EdgeSpec == Init /\ [][EdgeNext]_vars

\* a run of the launcher, for every command line
LauncherInit ==
    /\ AppInit
    /\ \E a \in LauncherArgs : launcher = LauncherStart(a)

LauncherNext ==
    \/ LauncherParse
    \/ LauncherInstall
    \/ LauncherCheckDependencies
    \/ LauncherCheckChatterbox
    \/ LauncherDevice
    \/ LauncherEnviron
    \/ LauncherImport
    \/ AppMain

LauncherSpec == LauncherInit /\ [][LauncherNext]_vars

(***************************************************************************)
(* Properties                                                              *)
(***************************************************************************)
\* the text is empty or has whitespace characters only
OnlyWhitespace(text) == \A i \in 1..Len(text) : text[i] \in {" ", "\t", "\n"}

\* worker w starts handler o in this step
Starts(w, o) == pc[w] = "idle" /\ pc'[w] # "idle" /\ op'[w] = o

\* C1: a generate_tts call whose text is empty or only whitespace returns, in
\* whatever state it is made, no audio and a failure status, and the call loads
\* no session, calls no model, leaves the generators as they are and adds no
\* file to the history.
C1_BlankTextRejected ==
    [][\A w \in Workers :
        (Starts(w, "generate_tts") /\ OnlyWhitespace(args'[w].text)) =>
            /\ pc'[w] = "done"
            /\ ret'[w].audio = None
            /\ ~ret'[w].status.ok
            /\ model'[w] = None
            /\ sent'[w] = None
            /\ UNCHANGED <<tts_model, vc_model, rng, files>>]_vars

\* a whitespace-only text was rejected while the TTS session is loaded and the
\* history holds a file
C1_Witness ==
    \E w \in Workers :
        /\ pc[w] = "done" /\ op[w] = "generate_tts"
        /\ Len(args[w].text) > 0 /\ OnlyWhitespace(args[w].text)
        /\ ret[w] = [audio |-> None, status |-> EmptyText]
        /\ tts_model # None
        /\ DOMAIN files # {}

\* C2: a generate_tts call with a non-blank text of exactly MAX_TEXT_LENGTH
\* characters goes on to load_tts_model and, with a session, calls the model
\* with that text; with MAX_TEXT_LENGTH + 1 characters it returns no audio and a
\* failure status without load, model call or file.  The length is that of the
\* text as given, whitespace at its ends included.
C2_LengthBoundary ==
    [][\A w \in Workers :
        /\ (Starts(w, "generate_tts") /\ ~OnlyWhitespace(args'[w].text)) =>
              /\ Len(args'[w].text) = MAX_TEXT_LENGTH =>
                    pc'[w] = "load" /\ ret'[w] = None
              /\ Len(args'[w].text) = MAX_TEXT_LENGTH + 1 =>
                    /\ pc'[w] = "done"
                    /\ ret'[w].audio = None
                    /\ ~ret'[w].status.ok
                    /\ model'[w] = None
                    /\ sent'[w] = None
                    /\ UNCHANGED <<tts_model, vc_model, rng, files>>
        /\ (/\ pc[w] = "generate" /\ pc'[w] = "done"
            /\ Len(args[w].text) = MAX_TEXT_LENGTH) =>
              sent'[w] # None /\ sent'[w].text = args[w].text]_vars

\* a text of exactly MAX_TEXT_LENGTH characters, one of them a leading space,
\* was synthesized
C2_Witness ==
    \E w \in Workers :
        /\ pc[w] = "done" /\ op[w] = "generate_tts"
        /\ Len(args[w].text) = MAX_TEXT_LENGTH
        /\ args[w].text[1] = " "
        /\ sent[w] # None /\ sent[w].text = args[w].text
        /\ ret[w].audio # None

\* the preset table as documented: (exaggeration, cfg_weight, temperature)
DocumentedPreset(name) ==
    CASE name = "Neutral"              -> <<50, 50, 80>>
      [] name = "Calm & Controlled"    -> <<20, 70, 60>>
      [] name = "Expressive & Dynamic" -> <<80, 30, 90>>
      [] name = "Dramatic & Intense"   -> <<120, 20, 100>>
      [] name = "Robotic & Stable"     -> <<10, 80, 50>>
      [] name = "Creative & Varied"    -> <<70, 40, 120>>
      [] OTHER                         -> <<50, 50, 80>>

\* C3: apply_preset(name) returns the documented triple for each of the six
\* names of the table and (0.5, 0.5, 0.8) for "Custom" and for a name that is
\* not in the table; it always returns a triple.
C3_ApplyPreset ==
    \A w \in Workers :
        (pc[w] = "done" /\ op[w] = "apply_preset") =>
            /\ DOMAIN ret[w] = {"values"}
            /\ ret[w].values = DocumentedPreset(args[w].preset)

\* apply_preset returned the triple of a preset whose three values differ
C3_Witness ==
    \E w \in Workers :
        /\ pc[w] = "done" /\ op[w] = "apply_preset"
        /\ args[w].preset = "Dramatic & Intense"
        /\ ret[w].values = <<120, 20, 100>>

\* the three parameters handed to the model
SentParams(w) ==
    <<sent[w].kw.exaggeration, sent[w].kw.cfg_weight, sent[w].kw.temperature>>

\* C4: whenever generate_tts with a preset other than "Custom" calls the model,
\* the exaggeration, cfg_weight and temperature it passes are
\* apply_preset(preset), whatever the caller supplied and whatever the preset
\* string is, a name absent from the table included.
C4_PresetOverrides ==
    \A w \in Workers :
        (op[w] = "generate_tts" /\ sent[w] # None /\ args[w].preset # "Custom") =>
            SentParams(w) = apply_preset(args[w].preset)

\* the same for the names of the table only
C4_TablePresetOverrides ==
    \A w \in Workers :
        (/\ op[w] = "generate_tts" /\ sent[w] # None
         /\ args[w].preset \in PresetNames) =>
            SentParams(w) = apply_preset(args[w].preset)

\* C5: generate_tts seeds all four generators with the seed it was given when
\* that seed is not 0, and reports it as the seed used; a seed of 0 is replaced
\* by a seed drawn from 1..1000000, so the seed used and reported is never 0.
C5_SeedResolution ==
    [][\A w \in Workers :
        /\ (pc[w] = "set_seed" /\ pc'[w] # "set_seed") =>
              LET used == eff'[w].actual_seed
              IN  /\ rng' = [torch |-> used, cuda |-> used, py |-> used, np |-> used]
                  /\ args[w].seed # 0 => used = args[w].seed
                  /\ args[w].seed = 0 => used \in 1..1000000
        /\ (pc[w] = "generate" /\ pc'[w] = "done" /\ ret'[w].status.ok) =>
              /\ ret'[w].status.seed = eff[w].actual_seed
              /\ ret'[w].status.seed # 0
              /\ args[w].seed # 0 => ret'[w].status.seed = args[w].seed]_vars

\* a request with seed 0 succeeded and reports a seed from 1..1000000
C5_Witness ==
    \E w \in Workers :
        /\ pc[w] = "done" /\ op[w] = "generate_tts"
        /\ args[w].seed = 0
        /\ ret[w].status.ok
        /\ ret[w].status.seed \in 1..1000000
        /\ rng.torch = ret[w].status.seed

\* C6: two generate_tts calls on the same session with the same text,
\* reference audio, preset, parameters and the same seed other than 0 return the
\* same waveform, whatever requests ran before each of them.
C6_Deterministic ==
    \A w1, w2 \in Workers :
        (/\ pc[w1] = "done" /\ op[w1] = "generate_tts"
         /\ pc[w2] = "done" /\ op[w2] = "generate_tts"
         /\ args[w1] = args[w2]
         /\ args[w1].seed # 0
         /\ model[w1] = model[w2]
         /\ ret[w1].audio # None /\ ret[w2].audio # None) =>
            ret[w1].audio = ret[w2].audio

\* two calls with the same arguments and seed 7 returned the same waveform, in
\* a run in which a voice conversion was made as well
C6_Witness ==
    \E w1, w2 \in Workers :
        /\ w1 # w2
        /\ pc[w1] = "done" /\ op[w1] = "generate_tts"
        /\ pc[w2] = "done" /\ op[w2] = "generate_tts"
        /\ args[w1] = args[w2]
        /\ args[w1].seed = 7
        /\ DOMAIN files = {FileName("tts", 0), FileName("vc", 0)}
        /\ ret[w1].audio # None
        /\ ret[w1].audio = ret[w2].audio

\* the session global of the kind the handler of worker w needs
Needed(w) == IF op[w] \in {"load_tts_model", "generate_tts"} THEN tts_model ELSE vc_model

\* C7: while handlers do not overlap, a session that is loaded stays loaded and
\* stays the same object whatever handler runs; the constructor of its kind is
\* not invoked again; and every later load_tts_model / load_vc_model call
\* returns that object with the "already loaded" status.
C7_LoadedIsTerminal ==
    [][/\ tts_model # None => tts_model' = tts_model
       /\ vc_model # None => vc_model' = vc_model
       /\ \A w \in Workers :
            /\ (pc[w] = "from_pretrained" /\ pc'[w] # "from_pretrained") =>
                  Needed(w) = None
            /\ (pc[w] = "load" /\ pc'[w] # "load" /\ Needed(w) # None) =>
                  IF op[w] = "load_tts_model"
                  THEN /\ pc'[w] = "done"
                       /\ ret'[w].model = tts_model
                       /\ ret'[w].status.msg = "Model already loaded"
                  ELSE IF op[w] = "load_vc_model"
                  THEN /\ pc'[w] = "done"
                       /\ ret'[w].model = vc_model
                       /\ ret'[w].status.msg = "Model already loaded"
                  ELSE /\ pc'[w] \in {"set_seed", "convert"}
                       /\ model'[w] = Needed(w)]_vars

\* load_tts_model was called with the TTS session loaded and returned it
C7_Witness ==
    \E w \in Workers :
        /\ pc[w] = "done" /\ op[w] = "load_tts_model"
        /\ tts_model # None
        /\ ret[w] = [model |-> tts_model, status |-> AlreadyLoaded("tts")]

\* the worker's constructor call raised in this step
CtorRaised(w) == pc[w] = "from_pretrained" /\ pc'[w] \notin {"from_pretrained", "loaded"}

\* C8: when the constructor raises, load_tts_model / load_vc_model returns no
\* session and a failure status that lists the troubleshooting steps (to
\* generate_tts / generate_vc, which return it with no audio), the session of
\* that kind stays unset, and the next load for that kind, finding it unset,
\* invokes the constructor again.
C8_FailedLoadRetries ==
    [][\A w \in Workers :
        /\ CtorRaised(w) =>
              /\ pc'[w] = "done"
              /\ Needed(w)' = None
              /\ "raised" \notin DOMAIN ret'[w]
              /\ ~ret'[w].status.ok
              /\ ret'[w].status.msg = "Failed to load model"
              /\ Len(ret'[w].status.troubleshooting) = 3
              /\ IF op[w] \in {"load_tts_model", "load_vc_model"}
                 THEN ret'[w].model = None
                 ELSE ret'[w].audio = None
        /\ (/\ pc[w] = "load" /\ pc'[w] # "load"
            /\ CHATTERBOX_AVAILABLE /\ Needed(w) = None) =>
              pc'[w] = "from_pretrained"]_vars

\* load_tts_model returned the failure of the constructor, and a later
\* load_tts_model call constructed the session
C8_Witness ==
    \E w1, w2 \in Workers :
        /\ tts_model # None
        /\ pc[w1] = "done" /\ op[w1] = "load_tts_model"
        /\ ret[w1] = [model |-> None, status |-> LoadFailed("tts")]
        /\ pc[w2] = "done" /\ op[w2] = "load_tts_model"
        /\ ret[w2] = [model |-> tts_model, status |-> LoadedOk("tts", tts_model)]

\* C9: with the model library unavailable, load_tts_model and load_vc_model
\* return no session and the status with the install hint, no constructor is
\* invoked and no session is ever loaded; so a generate_tts / generate_vc call
\* never gets to the model and returns no audio.
C9_Unavailable ==
    ~CHATTERBOX_AVAILABLE =>
        /\ tts_model = None
        /\ vc_model = None
        /\ \A w \in Workers :
            /\ pc[w] \in {"idle", "load", "unlink", "stat", "done"}
            /\ sent[w] = None
            /\ (pc[w] = "done" /\ op[w] \in {"load_tts_model", "load_vc_model"}) =>
                  /\ DOMAIN ret[w] = {"model", "status"}
                  /\ ret[w].model = None
                  /\ ~ret[w].status.ok
                  /\ ret[w].status.hint = "pip install chatterbox-tts"
            /\ (pc[w] = "done" /\ op[w] \in {"generate_tts", "generate_vc"}) =>
                  /\ DOMAIN ret[w] = {"audio", "status"}
                  /\ ret[w].audio = None
                  /\ ~ret[w].status.ok

\* without the library, a generate_tts call with a valid text came back with
\* the install hint
C9_Witness ==
    \E w \in Workers :
        /\ ~CHATTERBOX_AVAILABLE
        /\ pc[w] = "done" /\ op[w] = "generate_tts"
        /\ ~OnlyWhitespace(args[w].text)
        /\ Len(args[w].text) <= MAX_TEXT_LENGTH
        /\ ret[w] = [audio |-> None, status |-> NotInstalled]

\* worker w's load of `kind` saw the session unset, its constructor call
\* overlapped another one for the same kind, and the load has returned
RacedLoadOver(w, kind) ==
    /\ raced[w]
    /\ KindOf(op[w]) = kind
    /\ pc[w] \in {"set_seed", "generate", "convert", "done"}

\* the constructor call of worker w's load raised
ConstructRaised(w, kind) ==
    /\ pc[w] = "done"
    /\ ret[w].status = LoadFailed(kind)

\* the handle that the load of worker w returned to its caller
Handle(w) ==
    IF op[w] \in {"load_tts_model", "load_vc_model"} THEN ret[w].model ELSE model[w]

\* C10 as stated: when two first-use loads of one kind have both seen the
\* session unset and both called the constructor, the session is loaded once
\* both have returned, and each caller whose construction did not raise has a
\* handle.
C10_RaceEndsLoaded ==
    \A kind \in Kinds :
        (\A w \in Workers : RacedLoadOver(w, kind)) =>
            /\ Global(kind) # None
            /\ \A w \in Workers : ~ConstructRaised(w, kind) => Handle(w) # None

\* C10: two overlapping first-use loads of one kind can both see the session
\* unset and both call the constructor; a caller of such a load whose
\* construction did not raise returns a handle of that kind, and the session is
\* loaded from then on.  (When every construction raises, every caller returns
\* no handle and the session stays unset.)
C10_RaceLoadsUnlessRaised ==
    \A kind \in Kinds : \A w \in Workers :
        RacedLoadOver(w, kind) =>
            IF ConstructRaised(w, kind)
            THEN Handle(w) = None
            ELSE /\ Global(kind) # None
                 /\ Handle(w) # None
                 /\ Handle(w).kind = kind

\* both load_tts_model calls saw the session unset, both constructed a session,
\* and the callers hold two different sessions
C10_Witness ==
    /\ \A w \in Workers :
           /\ RacedLoadOver(w, "tts")
           /\ op[w] = "load_tts_model"
           /\ ~ConstructRaised(w, "tts")
    /\ ret[1].model # ret[2].model
    /\ tts_model # None

\* the load_tts_model call inside the generate_tts call of worker w returns
\* without a session in this step
TtsLoadFails(w) ==
    /\ op[w] = "generate_tts"
    /\ pc[w] \in {"load", "from_pretrained"}
    /\ pc'[w] = "done"

\* C11: a generate_tts call with a valid text that gets no session from
\* load_tts_model (library unavailable, or the constructor raised) returns no
\* audio and the very status load_tts_model produced, has called no model and
\* has written nothing to the history.
C11_LoadFailureVerbatim ==
    [][\A w \in Workers :
        TtsLoadFails(w) =>
            /\ ret'[w] = [audio |-> None,
                          status |-> IF pc[w] = "load" THEN NotInstalled
                                     ELSE LoadFailed("tts")]
            /\ (pc[w] = "load") = ~CHATTERBOX_AVAILABLE
            /\ sent'[w] = None
            /\ files' = files
            /\ tts_model' = None]_vars

\* a valid generate_tts call came back with the status of the constructor's
\* failure, and nothing is in the history
C11_Witness ==
    \E w \in Workers :
        /\ pc[w] = "done" /\ op[w] = "generate_tts"
        /\ ~OnlyWhitespace(args[w].text)
        /\ Len(args[w].text) <= MAX_TEXT_LENGTH
        /\ ret[w] = [audio |-> None, status |-> LoadFailed("tts")]
        /\ sent[w] = None
        /\ files = NoFiles

\* the call of the external model by worker w ends in this step
ModelCallEnds(w) == pc[w] \in {"generate", "convert"} /\ pc'[w] # pc[w]

\* C12: when model.generate raises inside generate_tts or generate_vc the
\* handler returns no audio and a failure status (nothing reaches the UI
\* framework as an exception), and both sessions are left as they are; a later
\* request on the same session can succeed.
C12_ModelFailureCaught ==
    [][\A w \in Workers :
        ModelCallEnds(w) =>
            /\ pc'[w] = "done"
            /\ DOMAIN ret'[w] = {"audio", "status"}
            /\ (ret'[w].audio = None) = ~ret'[w].status.ok
            /\ ~ret'[w].status.ok =>
                  ret'[w].status.msg = IF op[w] = "generate_tts"
                                       THEN "Generation failed"
                                       ELSE "Voice conversion failed"
            /\ tts_model' = tts_model
            /\ vc_model' = vc_model
            /\ Needed(w) # None]_vars

\* the model raised in a generate_tts call with seed 7; the call with seed
\* 1000001 that seeded the generators after it returned audio of the same session
C12_Witness ==
    \E w1, w2 \in Workers :
        /\ pc[w1] = "done" /\ op[w1] = "generate_tts"
        /\ args[w1].seed = 7
        /\ ret[w1] = [audio |-> None,
                      status |-> GenerationFailed("model.generate raised")]
        /\ pc[w2] = "done" /\ op[w2] = "generate_tts"
        /\ args[w2].seed = RANDINT_HIGH + 1
        /\ rng.torch = RANDINT_HIGH + 1
        /\ ret[w2].status.ok
        /\ ret[w2].audio # None
        /\ model[w2] = tts_model

\* C13: a generate_tts call that succeeds with a waveform of n > 0 samples at
\* rate sr returns (sr, that waveform), leaves the file tts_<second of the
\* save>.wav holding it (no other file is added or changed) and reports the
\* duration n / sr; for n = sr = 24000 the duration is reported as 1.0 s.
C13_TtsSuccess ==
    [][\A w \in Workers :
        (/\ op[w] = "generate_tts" /\ pc[w] = "generate" /\ pc'[w] = "done"
         /\ ret'[w].status.ok) =>
            LET wav == ret'[w].audio.wav
                saved == FileName("tts", now)
            IN  /\ ret'[w].audio # None
                /\ ret'[w].audio.sr = model[w].sr
                /\ wav = TtsModelGenerate(model[w], args[w].text, sent'[w].kw, rng)
                /\ wav.n > 0
                /\ DOMAIN files' = DOMAIN files \cup {saved}
                /\ files'[saved] = [sr |-> model[w].sr, n |-> wav.n]
                /\ \A f \in DOMAIN files \ {saved} : files'[f] = files[f]
                /\ ret'[w].status.path = saved
                /\ ret'[w].status.msg = "Generated"
                /\ ret'[w].status.duration * model[w].sr = wav.n * 10
                /\ (wav.n = 24000 /\ model[w].sr = 24000) =>
                      ret'[w].status.duration = 10]_vars

\* the request {text "aa", preset "Neutral", seed 0} returned one second of
\* audio at 24000 Hz, and the only file of the history is the one it saved
C13_Witness ==
    \E w \in Workers :
        /\ pc[w] = "done" /\ op[w] = "generate_tts"
        /\ args[w].preset = "Neutral" /\ args[w].seed = 0
        /\ ret[w].audio # None
        /\ ret[w].audio.sr = 24000 /\ ret[w].audio.wav.n = 24000
        /\ ret[w].status.duration = 10
        /\ DOMAIN files = {FileName("tts", now)}
        /\ ret[w].status.path = FileName("tts", now)

\* C14: a generate_vc call without input audio returns, in whatever state it
\* is made, no audio and a failure status; the call loads no session, calls no
\* model and adds no file to the history.
C14_NoInputRejected ==
    [][\A w \in Workers :
        (Starts(w, "generate_vc") /\ args'[w].input_audio = None) =>
            /\ pc'[w] = "done"
            /\ ret'[w].audio = None
            /\ ~ret'[w].status.ok
            /\ ret'[w].status.msg = "Please provide input audio for voice conversion"
            /\ vc_model' = vc_model /\ tts_model' = tts_model
            /\ sent'[w] = None
            /\ files' = files]_vars

\* generate_vc was called with a target voice but no input, with the library
\* available and no VC session loaded, and no session has been loaded
C14_Witness ==
    \E w \in Workers :
        /\ pc[w] = "done" /\ op[w] = "generate_vc"
        /\ args[w].input_audio = None
        /\ args[w].target_voice_audio # None
        /\ CHATTERBOX_AVAILABLE
        /\ vc_model = None
        /\ ret[w] = [audio |-> None, status |-> NoInputAudio]

\* C15: a generate_vc call with input audio and no target voice goes to
\* load_vc_model (which constructs the session when none is loaded), calls the
\* model with target_voice_path = None, and when it succeeds returns
\* (sample rate, waveform) and has saved the waveform as vc_<second>.wav.
C15_VcWithoutTarget ==
    [][\A w \in Workers :
        /\ (Starts(w, "generate_vc") /\ args'[w].input_audio # None) =>
              pc'[w] = "load"
        /\ (op[w] = "generate_vc" /\ pc'[w] = "convert" /\ pc[w] # "convert") =>
              /\ vc_model' # None
              /\ model'[w] = vc_model'
        /\ (/\ op[w] = "generate_vc" /\ pc[w] = "convert" /\ pc'[w] = "done"
            /\ args[w].target_voice_audio = None) =>
              /\ sent'[w] = [input_audio |-> args[w].input_audio,
                             target_voice_path |-> None]
              /\ ret'[w].status.ok =>
                    /\ ret'[w].audio # None
                    /\ ret'[w].audio.sr = model[w].sr
                    /\ ret'[w].audio.wav =
                          VcModelGenerate(model[w], args[w].input_audio, None, rng)
                    /\ ret'[w].status.path = FileName("vc", now)
                    /\ FileName("vc", now) \in DOMAIN files'
                    /\ files'[FileName("vc", now)].n = ret'[w].audio.wav.n]_vars

\* a conversion without target voice succeeded; its file is the only one in
\* the history
C15_Witness ==
    \E w \in Workers :
        /\ pc[w] = "done" /\ op[w] = "generate_vc"
        /\ args[w] = VcRequest(AudioFile("in.wav"), None)
        /\ ret[w].status.ok
        /\ sent[w].target_voice_path = None
        /\ vc_model # None /\ model[w] = vc_model
        /\ ret[w].audio # None
        /\ DOMAIN files = {ret[w].status.path}
        /\ ret[w].status.path.prefix = "vc"

\* the constructor raised in this step inside a generate_tts / generate_vc call
GenerationCtorRaised(w) ==
    CtorRaised(w) /\ op[w] \in {"generate_tts", "generate_vc"}

\* C16 as stated: when the constructor raises inside a generation request, the
\* status returned has the installation hint, there is no audio and nothing is
\* saved.
C16_InstallHintOnRaise ==
    [][\A w \in Workers :
        GenerationCtorRaised(w) =>
            /\ ret'[w].audio = None
            /\ files' = files
            /\ "hint" \in DOMAIN ret'[w].status
            /\ ret'[w].status.hint = "pip install chatterbox-tts"]_vars

\* C16: when the constructor raises inside a generation request, the status
\* returned is the load failure with its three troubleshooting steps (internet
\* connection, disk space, restart) and without the installation hint, there is
\* no audio and nothing is saved.
C16_TroubleshootingOnRaise ==
    [][\A w \in Workers :
        GenerationCtorRaised(w) =>
            /\ ret'[w].audio = None
            /\ files' = files
            /\ sent'[w] = None
            /\ DOMAIN ret'[w].status = {"ok", "msg", "kind", "troubleshooting"}
            /\ ret'[w].status.troubleshooting =
                  <<"internet connection", "disk space", "restart">>
            /\ ret'[w].status.kind = KindOf(op[w])]_vars

\* a generate_vc call whose constructor raised returned the troubleshooting
\* steps, with the library available
C16_Witness ==
    \E w \in Workers :
        /\ pc[w] = "done" /\ op[w] = "generate_vc"
        /\ CHATTERBOX_AVAILABLE
        /\ ret[w] = [audio |-> None, status |-> LoadFailed("vc")]
        /\ "hint" \notin DOMAIN ret[w].status
        /\ vc_model = None

\* the generation of worker w has returned its success status (and so has
\* saved its waveform)
Saved(w) ==
    /\ pc[w] = "done"
    /\ op[w] \in {"generate_tts", "generate_vc"}
    /\ ret[w].status.ok

\* C17: after a save whose timestamp is later than that of every file already
\* in the history, get_audio_history returns the saved file first.
C17_NewestFirst ==
    \A w \in SerialWorkers :
        (/\ Saved(w)
         /\ \A f \in DOMAIN files \ {ret[w].status.path} :
                f.timestamp < ret[w].status.path.timestamp) =>
            get_audio_history(dir_exists, files)[1] = ret[w].status.path

\* among the files of one prefix the listing is most recent first
C17_NewestFirstOfPrefix ==
    LET listing == get_audio_history(dir_exists, files)
    IN  \A i, j \in DOMAIN listing :
            (i < j /\ listing[i].prefix = listing[j].prefix) =>
                listing[i].timestamp > listing[j].timestamp

\* C18: when clear_audio_history returns its success status every file that
\* was in the directory when the call started is gone; and with no save since
\* the clear, get_audio_history returns the empty sequence, whatever was in the
\* history before.
C18_ClearEmpties ==
    [][\A w \in Workers :
        (/\ op[w] = "clear_audio_history" /\ pc[w] = "unlink" /\ pc'[w] = "done"
         /\ ret'[w].status.ok) =>
            /\ eff[w].listing \cap DOMAIN files' = {}
            /\ ret'[w].status.msg = "Audio history cleared successfully"
            /\ get_audio_history(dir_exists', files') = <<>>]_vars

\* a history with files of both prefixes and both seconds has been cleared
C18_Witness ==
    \E w \in Workers :
        /\ pc[w] = "done" /\ op[w] = "clear_audio_history"
        /\ ret[w].status.ok
        /\ Cardinality(eff[w].listing) = 4
        /\ get_audio_history(dir_exists, files) = <<>>

\* the prefix under which the handler of worker w saves
PrefixOf(w) == IF op[w] = "generate_tts" THEN "tts" ELSE "vc"

\* the generation of worker w returns its success status in this step
Saves(w) ==
    /\ pc[w] \in {"generate", "convert"}
    /\ pc'[w] = "done"
    /\ ret'[w].status.ok

\* C19: a save returns the path <prefix>_<second of the save>.wav.  When a file
\* of that prefix and second is in the history already the save writes that
\* same file, which then holds the later waveform, and the number of files does
\* not grow; a file that differs in prefix or in second is a different file and
\* is left as it is.
C19_SameSecondCollides ==
    [][\A w \in Workers :
        Saves(w) =>
            LET path == ret'[w].status.path
                same == {f \in DOMAIN files :
                            f.prefix = PrefixOf(w) /\ f.timestamp = now}
            IN  /\ path.prefix = PrefixOf(w)
                /\ path.timestamp = now
                /\ DOMAIN files' = DOMAIN files \cup {path}
                /\ files'[path] = [sr |-> model[w].sr, n |-> ret'[w].audio.wav.n]
                /\ same # {} =>
                      /\ same = {path}
                      /\ Cardinality(DOMAIN files') = Cardinality(DOMAIN files)
                /\ \A f \in DOMAIN files \ same :
                      /\ f # path
                      /\ files'[f] = files[f]]_vars

\* two conversions succeeded in the same second and returned the same path; the
\* history has one file, and it holds the empty waveform of one of them, not
\* the one-second waveform of the other
C19_Witness ==
    \E w1, w2 \in Workers :
        /\ pc[w1] = "done" /\ op[w1] = "generate_vc" /\ ret[w1].status.ok
        /\ pc[w2] = "done" /\ op[w2] = "generate_vc" /\ ret[w2].status.ok
        /\ ret[w1].status.path = ret[w2].status.path
        /\ ret[w1].audio.wav.n = SAMPLE_RATE
        /\ ret[w2].audio.wav.n = 0
        /\ DOMAIN files = {ret[w1].status.path}
        /\ files[ret[w2].status.path].n = 0

\* the model returned a waveform to the generation of worker w in this step
ModelReturned(w) ==
    /\ pc[w] \in {"generate", "convert"}
    /\ pc'[w] = "done"
    /\ ret'[w].status.ok \/ ret'[w].status.error # "model.generate raised"

\* C20: every save writes <prefix>_<second>.wav into the history directory,
\* creating the directory when it is not there: once the model has returned a
\* waveform, the directory exists and holds that file.
C20_SaveCreatesDirectory ==
    [][\A w \in Workers :
        ModelReturned(w) =>
            /\ dir_exists'
            /\ FileName(PrefixOf(w), now) \in DOMAIN files']_vars

\* C21: get_system_status, called in whatever state (no session loaded, the
\* history empty or its directory missing), returns a report of that state;
\* it leaves both sessions, the generators and the history as they are and
\* never goes to a model load.
C21_StatusReadOnly ==
    [][\A w \in Workers :
        /\ Starts(w, "get_system_status") => pc'[w] = "stat"
        /\ (op[w] = "get_system_status" /\ pc[w] = "stat" /\ pc'[w] # "stat") =>
              /\ pc'[w] = "done"
              /\ DOMAIN ret'[w] = {"status"}
              /\ ret'[w].status.tts_loaded = (tts_model # None)
              /\ ret'[w].status.vc_loaded = (vc_model # None)
              /\ ret'[w].status.total_files = Cardinality(DOMAIN files)
        /\ (\/ Starts(w, "get_system_status")
            \/ op[w] = "get_system_status" /\ pc[w] = "stat") =>
              /\ tts_model' = tts_model
              /\ vc_model' = vc_model
              /\ rng' = rng
              /\ files' = files
              /\ dir_exists' = dir_exists]_vars

\* a report was returned with no session loaded and the directory missing
C21_Witness ==
    \E w \in Workers :
        /\ pc[w] = "done" /\ op[w] = "get_system_status"
        /\ ~dir_exists
        /\ tts_model = None /\ vc_model = None
        /\ DOMAIN ret[w] = {"status"}
        /\ ret[w].status.total_files = 0
        /\ ~ret[w].status.tts_loaded

\* C22: whatever the interleaving of the handlers on the worker pool, a
\* handler returns a value to the UI framework and never an exception.
C22_NoUnhandledException ==
    \A w \in Workers :
        pc[w] = "done" => "raised" \notin DOMAIN ret[w]

\* C25: only clear_audio_history takes a file out of the history: a step of a
\* load, generation or status report, successful or failed, loses no file
\* name; and a generation that returns its success status leaves the file
\* whose path the status reports.
C25_OnlyClearDestroys ==
    [][/\ ~(DOMAIN files \subseteq DOMAIN files') =>
              \E w \in Workers :
                  /\ op[w] = "clear_audio_history"
                  /\ pc[w] = "unlink" /\ pc'[w] = "done"
       /\ \A w \in Workers :
              Saves(w) =>
                  /\ ret'[w].status.path \in DOMAIN files'
                  /\ ret'[w].status.path = FileName(PrefixOf(w), now)]_vars

\* a generation failed in the model while the history held two files, and both
\* are still there
C25_Witness ==
    \E w \in Workers :
        /\ pc[w] = "done" /\ op[w] \in {"generate_tts", "generate_vc"}
        /\ ~ret[w].status.ok
        /\ sent[w] # None
        /\ DOMAIN files = {FileName("tts", 0), FileName("vc", 0)}

\* C27: with preset "Custom" generate_tts passes the caller's exaggeration,
\* cfg_weight and temperature to the model and reports them in its status, not
\* the defaults of apply_preset("Custom"); and, whatever the preset, the model
\* gets audio_prompt_path exactly when a reference audio was given, and it is
\* that reference audio.
C27_CustomPassesThrough ==
    [][\A w \in Workers :
        (op[w] = "generate_tts" /\ pc[w] = "generate" /\ pc'[w] = "done") =>
            /\ args[w].preset = "Custom" =>
                  /\ sent'[w].kw.exaggeration = args[w].exaggeration
                  /\ sent'[w].kw.cfg_weight = args[w].cfg_weight
                  /\ sent'[w].kw.temperature = args[w].temperature
                  /\ ret'[w].status.ok =>
                        /\ ret'[w].status.exag = args[w].exaggeration
                        /\ ret'[w].status.cfg = args[w].cfg_weight
                        /\ ret'[w].status.temp = args[w].temperature
            /\ ("audio_prompt_path" \in DOMAIN sent'[w].kw) =
                  (args[w].reference_audio # None)
            /\ args[w].reference_audio # None =>
                  sent'[w].kw.audio_prompt_path = args[w].reference_audio]_vars

\* a "Custom" request with a reference voice and sliders at (1.3, 0.25, 1.7),
\* which is not what apply_preset("Custom") returns, succeeded with those values
C27_Witness ==
    \E w \in Workers :
        /\ pc[w] = "done" /\ op[w] = "generate_tts"
        /\ args[w].preset = "Custom"
        /\ args[w].reference_audio = AudioFile("voice.wav")
        /\ ret[w].status.ok
        /\ SentParams(w) = <<130, 25, 170>>
        /\ SentParams(w) # apply_preset("Custom")
        /\ sent[w].kw.audio_prompt_path = AudioFile("voice.wav")
        /\ ret[w].status.exag = 130

\* C28: a generate_tts call that returns no audio leaves the history holding
\* exactly the files it held before: the step in which such a call returns
\* (the only step of the call that can write) changes no file.
C28_FailureLeavesHistory ==
    [][\A w \in Workers :
        (/\ op'[w] = "generate_tts"
         /\ pc[w] # "done" /\ pc'[w] = "done"
         /\ ret'[w].audio = None) =>
            files' = files]_vars

\* C29: the seed a seed = 0 request draws does not depend on the seed of the
\* request before it: when the generators were last seeded by a request with
\* the nonzero seed s, the next seed = 0 request draws what it would draw had
\* that request been made with any other nonzero seed.
C29_FreshSeedIndependent ==
    \A w1, w2 \in Workers :
        (/\ pc[w1] = "done" /\ op[w1] = "generate_tts"
         /\ args[w1].seed # 0
         /\ rng = SeededAll(args[w1].seed)
         /\ pc[w2] = "set_seed" /\ args[w2].seed = 0) =>
            \A other \in Seeds \ {0} :
                set_seed(0, rng).seed = set_seed(0, SeededAll(other)).seed

\* some step of the launcher run ended the way `outcome` says
Some(outcome) ==
    \E i \in DOMAIN launcher.log : launcher.log[i].outcome = outcome

\* C23: a launcher run (past the argument parser) ends with a nonzero status
\* whenever a package or the model library is missing, the installation
\* failed or the launch of the interface failed, the launch call inside
\* enhanced_gradio_app.main included; it ends with 0 only after a launch that
\* did not fail or a keyboard interrupt.
C23_ExitStatus ==
    (launcher.pc = "exited" /\ ~launcher.args.help) =>
        /\ Some("failed") => launcher.exit # 0
        /\ launcher.exit = 0 =>
              \/ Some("interrupted")
              \/ launcher.launched # None /\ ~Some("failed")

\* every failure before run_app() ends the launcher with status 1
C23_EarlyFailuresExitNonzero ==
    (launcher.pc = "exited" /\ ~launcher.args.help /\ launcher.launched = None) =>
        /\ Some("failed") => launcher.exit = 1
        /\ launcher.exit = 0 => Some("interrupted")

\* C24: --host, --port and --no-share are put into GRADIO_SERVER_NAME,
\* GRADIO_SERVER_PORT and GRADIO_SHARE before the app starts, and the interface
\* is launched on that host and port, with the public URL off exactly when
\* --no-share was given.
C24_LaunchFollowsOptions ==
    /\ launcher.pc \in {"import_app", "run_app"} =>
          /\ launcher.environ.GRADIO_SERVER_NAME = launcher.args.host
          /\ launcher.environ.GRADIO_SERVER_PORT = PortStr(launcher.args.port)
          /\ launcher.environ.GRADIO_SHARE =
                IF launcher.args.no_share THEN "False" ELSE "True"
    /\ (launcher.pc = "exited" /\ launcher.launched # None) =>
          /\ launcher.launched.server_name = launcher.args.host
          /\ launcher.launched.server_port = launcher.args.port
          /\ launcher.launched.share = ~launcher.args.no_share

\* the three variables are set from the options before the app is imported
C24_EnvironFollowsOptions ==
    launcher.pc \in {"import_app", "run_app"} =>
        /\ launcher.environ.GRADIO_SERVER_NAME = launcher.args.host
        /\ launcher.environ.GRADIO_SERVER_PORT = PortStr(launcher.args.port)
        /\ launcher.environ.GRADIO_SHARE =
              IF launcher.args.no_share THEN "False" ELSE "True"

\* `sub` is a run of consecutive elements of `seq`
Contains(seq, sub) ==
    \E i \in 0..(Len(seq) - Len(sub)) : SubSeq(seq, i + 1, i + Len(sub)) = sub

\* C26: with --help the launcher prints the usage, whose description has
\* "ChatterBox TTS & VC Gradio" in it, and exits with status 0 before it
\* installs or checks anything, changes os.environ or starts the app.
C26_HelpExitsFirst ==
    launcher.args.help =>
        /\ launcher.pc \in {"parse_args", "exited"}
        /\ launcher.environ = Environ0
        /\ launcher.launched = None
        /\ launcher.pc = "parse_args" => launcher.log = <<>>
        /\ launcher.pc = "exited" =>
              /\ launcher.exit = 0
              /\ Len(launcher.log) = 1
              /\ launcher.log[1].step = "print_help"
              /\ Contains(launcher.log[1].description,
                          <<"ChatterBox", "TTS", "&", "VC", "Gradio">>)

\* --help was given together with --install-deps and --cpu, and the launcher
\* has exited with 0
C26_Witness ==
    /\ launcher.pc = "exited"
    /\ launcher.args.help /\ launcher.args.install_deps /\ launcher.args.cpu
    /\ launcher.exit = 0
    /\ launcher.log[1].step = "print_help"

\* the steps the launcher has to have taken, all with success, before it
\* imports the app
StepsBeforeImport(a) ==
    (IF a.install_deps THEN <<Entry("install_dependencies", "ok")>> ELSE <<>>)
    \o <<Entry("check_dependencies", "ok"), Entry("check_chatterbox", "ok")>>
    \o (IF a.cpu THEN <<Entry("force_cpu", "ok")>> ELSE <<>>)
    \o <<Entry("set_environ", "ok")>>

\* C30: the app is imported and launched only after the installation (when
\* asked for) succeeded, the packages were found, the model library was found,
\* --cpu was applied and host, port and share were put into os.environ, in
\* this order; when one of the earlier steps fails the app is never started.
C30_LauncherOrder ==
    LET log == launcher.log
    IN  /\ \A i \in DOMAIN log :
              log[i].step \in {"import_app", "create_gradio_interface", "launch"} =>
                  /\ SubSeq(log, 1, Len(StepsBeforeImport(launcher.args))) =
                        StepsBeforeImport(launcher.args)
                  /\ i > Len(StepsBeforeImport(launcher.args))
                  /\ log[Len(StepsBeforeImport(launcher.args)) + 1].step = "import_app"
                  /\ launcher.args.cpu => launcher.environ.CUDA_VISIBLE_DEVICES = ""
                  /\ launcher.environ.GRADIO_SERVER_NAME = launcher.args.host
                  /\ launcher.environ.GRADIO_SERVER_PORT = PortStr(launcher.args.port)
                  /\ launcher.environ.GRADIO_SHARE \in {"True", "False"}
        /\ launcher.launched # None =>
              \E i \in DOMAIN log : log[i] = Entry("import_app", "ok")
        /\ (\E i \in DOMAIN log :
               /\ log[i].outcome = "failed"
               /\ log[i].step \in {"install_dependencies", "check_dependencies",
                                   "check_chatterbox", "find_app"}) =>
              /\ launcher.launched = None
              /\ launcher.pc = "exited"
              /\ \A i \in DOMAIN log : log[i].step # "import_app"

\* with --install-deps and --cpu the launcher took all steps and launched the
\* interface
C30_Witness ==
    /\ launcher.pc = "exited"
    /\ launcher.args.install_deps /\ launcher.args.cpu
    /\ launcher.launched # None
    /\ launcher.log = StepsBeforeImport(launcher.args)
                      \o <<Entry("import_app", "ok"), Entry("launch", "ok")>>
    /\ launcher.environ.CUDA_VISIBLE_DEVICES = ""

====
